---- MODULE Spec2Model ----
(***************************************************************************)
(* Hot reload of the mcpo configuration file:                              *)
(* src/src/mcpo/utils/config_watcher.py (ConfigChangeHandler and           *)
(* ConfigWatcher).                                                         *)
(*                                                                         *)
(* Two threads of execution: the watchdog observer thread, which runs the  *)
(* handler's on_modified / on_moved / on_created and _trigger_reload, and  *)
(* the asyncio event loop captured by ConfigWatcher.start(), which runs    *)
(* the _handle_config_change coroutines.                                   *)
(*                                                                         *)
(* Time is counted in units of 250 ms.  The code reads its clocks only in  *)
(* differences that it compares with the debounce delay, so the model      *)
(* keeps the differences, each counted up to the delay and no further:     *)
(* elapsed is time.time() - self._last_modification, a coroutine's age is  *)
(* the time since its trigger, its sleep the rest of its asyncio.sleep.    *)
(*                                                                         *)
(* A file's content is an integer: 0 when the file does not exist, v > 0   *)
(* for the v-th content when it is valid JSON, -v when it is not.          *)
(*                                                                         *)
(* The reload callback, mcpo.main.reload_config_handler, is taken in two   *)
(* ways: in Spec and FairSpec as a whole (a coroutine is in it from its    *)
(* read to CallbackReturn, which applies the configuration it was given);  *)
(* in ReloadSpec by its steps (validation, difference, construction,       *)
(* publication) on the application's Mount Table, as its specification     *)
(* and tests describe them.                                                *)
(***************************************************************************)
EXTENDS Integers, Sequences, FiniteSets, TLC

\* ---------------------------------------------------------------- bounds
MaxWrites == 1      \* contents given to the watched file after Init
MaxReloads == 2     \* coroutines _trigger_reload creates
MaxBurst == 3       \* events counted in one debounce window
MaxReloadCalls == 2 \* calls of reload_config_handler

\* ------------------------------------------------------------- constants
\* self._debounce_delay = 0.5 (seconds), in units of 250 ms
debounce_delay == 2

VARIABLES
    target,       \* content of the watched file
    temp,         \* a temporary file exists in the watched file's directory
    nextVer,      \* the next content the watched file is given
    replace,      \* an atomic replace: 0, 1 temp created, 2 target deleted, 3 renamed
    loopState,    \* the event loop: "running" or "closed"
    observer,     \* self.observer: "none", "alive", "stopping", "exited"
    wpc,          \* the caller of the watcher: "idle", or "joining" inside stop()
    wloop,        \* self.loop: "none" or "main"
    elapsed,      \* time.time() - self._last_modification of the current handler
    burst,        \* matching events handled in the window of the last accepted one
    reloads,      \* the coroutines created by _trigger_reload, in order
    applied,      \* the configuration the reload callback applied last
    appliedBy,    \* the coroutine (its place in reloads) whose callback applied it
    log           \* the last message logged

\* the reload callback, reload_config_handler(app, new_config), and the application
VARIABLES
    config_data,  \* app.state.config_data: the ConfigMap applied last
    mounts,       \* the Mount Table: service name -> handle of the mounted sub-app
    new_config,   \* the argument of the reload in progress
    rstate,       \* the reload attempt: "Idle", "Validating", "Diffing", "Mounting",
                  \* "Committed", "Rejected", "RolledBack"
    todo,         \* the services the reload has still to construct
    staged,       \* the handles constructed by the reload, pending mount
    calls,        \* create_sub_app, app.mount and unmount calls of the reload, by name
    reloadNo,     \* the reloads called so far
    old_mounts,   \* the Mount Table as the reload found it
    error         \* the error raised by the reload, or "none"

reloadVars == <<config_data, mounts, new_config, rstate, todo, staged, calls, reloadNo,
                old_mounts, error>>

watchVars == <<target, temp, nextVer, replace, loopState, observer, wpc, wloop, elapsed,
               burst, reloads, applied, appliedBy, log>>

vars == <<watchVars, reloadVars>>

fsVars == <<target, temp, nextVer, replace>>
watcherVars == <<observer, wpc, wloop>>
handlerVars == <<elapsed, burst, reloads, log>>

Min(a, b) == IF a < b THEN a ELSE b

\* ----------------------------------------------------------------- paths
\* Path.resolve(): "dlink" is a symbolic link to the directory "d"
Resolve(p) == [parent |-> IF p.parent = "dlink" THEN "d" ELSE p.parent, name |-> p.name]

\* the path given to ConfigWatcher
ConfigArg == [parent |-> "dlink", name |-> "config.json"]

config_path == Resolve(ConfigArg)

TempPath == [parent |-> config_path.parent, name |-> "config.tmp"]

RawPaths == {[parent |-> "d", name |-> "config.json"],
             [parent |-> "dlink", name |-> "config.json"],
             [parent |-> "d", name |-> "config.tmp"],
             [parent |-> "e", name |-> "config.json"]}

Event(kind, src, dest, isdir) ==
    [kind |-> kind, src_path |-> src, dest_path |-> dest, is_directory |-> isdir]

\* the events a handler may be handed without the watched file changing
RawEvents ==
    {Event(k, p, p, FALSE) : k \in {"modified", "created"}, p \in RawPaths}
    \cup {Event("moved", TempPath, q, FALSE) : q \in RawPaths}
    \cup {Event(k, config_path, config_path, TRUE) : k \in {"modified", "created", "moved"}}
    \cup {Event("moved", config_path, TempPath, FALSE),
          Event("deleted", config_path, config_path, FALSE)}

PathMatchesAnyParent(p) == p = config_path \/ p.name = config_path.name

\* event_path == self.config_path or
\* event_path.name == self.config_path.name and event_path.parent == self.config_path.parent
PathMatches(p) ==
    \/ p = config_path
    \/ (p.name = config_path.name /\ p.parent = config_path.parent)

\* --------------------------------------------------------- _trigger_reload
\* the coroutine object self._handle_config_change() of one accepted trigger: age is the
\* time since its trigger; got is new_config, the content read, while the reload
\* callback runs
NewReload ==
    [age |-> 0, pc |-> "created", thread |-> "none", sleep |-> 0, got |-> 0]

QueuedOnAnyLoop(coro) == [coro EXCEPT !.pc = "queued", !.thread = "loop"]

RunOnCallingThread(coro) == [coro EXCEPT !.pc = "queued", !.thread = "observer"]

\* asyncio.run_coroutine_threadsafe(coro, self.loop): call_soon_threadsafe raises
\* RuntimeError on a closed loop; otherwise the coroutine is queued on the loop
run_coroutine_threadsafe(coro) ==
    IF loopState = "closed"
    THEN [coro EXCEPT !.pc = "dropped"]
    ELSE [coro EXCEPT !.pc = "queued", !.thread = "loop"]

DebouncedNever == FALSE

DebouncedWhileInFlight ==
    \/ elapsed < debounce_delay
    \/ \E i \in DOMAIN reloads : reloads[i].pc \in {"queued", "sleeping", "callback"}

DebouncedInclusive == elapsed <= debounce_delay

\* current_time - self._last_modification < self._debounce_delay
Debounced == elapsed < debounce_delay

StampKept == elapsed

\* self._last_modification = current_time
Stamp == 0

trigger_reload ==
    IF Debounced
    THEN /\ log' = "Debouncing file change"
         /\ burst' = IF burst < MaxBurst THEN burst + 1 ELSE burst
         /\ UNCHANGED <<elapsed, reloads>>
    ELSE /\ elapsed' = Stamp
         /\ burst' = 1
         /\ LET r == run_coroutine_threadsafe(NewReload)
            IN /\ reloads' = Append(reloads, r)
               /\ log' = IF r.pc = "dropped"
                         THEN "Failed to schedule config reload"
                         ELSE "Scheduled config reload task"

\* ------------------------------------------------------- event handlers
on_modified(e) ==
    IF e.is_directory
    THEN UNCHANGED handlerVars
    ELSE IF PathMatches(Resolve(e.src_path))
         THEN trigger_reload
         ELSE /\ log' = "modified but not our config file"
              /\ UNCHANGED <<elapsed, burst, reloads>>

MovedFrom(e) == e.src_path

\* event_path = Path(event.dest_path): a moved event is matched by its destination
MovedTo(e) == e.dest_path

on_moved(e) ==
    IF e.is_directory
    THEN UNCHANGED handlerVars
    ELSE IF PathMatches(Resolve(MovedTo(e)))
         THEN trigger_reload
         ELSE /\ log' = "File moved"
              /\ UNCHANGED <<elapsed, burst, reloads>>

on_created(e) ==
    IF e.is_directory
    THEN UNCHANGED handlerVars
    ELSE IF PathMatches(Resolve(e.src_path))
         THEN trigger_reload
         ELSE /\ log' = "File created"
              /\ UNCHANGED <<elapsed, burst, reloads>>

\* FileSystemEventHandler.dispatch: on_deleted is not overridden
dispatch(e) ==
    CASE e.kind = "modified" -> on_modified(e)
      [] e.kind = "moved" -> on_moved(e)
      [] e.kind = "created" -> on_created(e)
      [] OTHER -> UNCHANGED handlerVars

\* ------------------------------------------------------ the filesystem
\* watchdog hands an event to the handler on the observer thread while that thread
\* lives; after observer.stop() it may still hand over the events it has in hand
Deliver(e) ==
    \/ /\ observer \in {"alive", "stopping"}
       /\ dispatch(e)
    \/ /\ observer # "alive"
       /\ UNCHANGED handlerVars

\* room for the coroutine an accepted trigger creates
Room == Len(reloads) < MaxReloads

\* a writer rewrites the watched file in place (creating it when it is missing)
WriteTarget(valid) ==
    /\ nextVer <= MaxWrites + 1
    /\ Room
    /\ target' = IF valid THEN nextVer ELSE 0 - nextVer
    /\ nextVer' = nextVer + 1
    /\ replace' = 0
    /\ UNCHANGED temp
    /\ Deliver(Event(IF target = 0 THEN "created" ELSE "modified", config_path, config_path, FALSE))
    /\ UNCHANGED <<loopState, watcherVars, applied, appliedBy, reloadVars>>

\* atomic replace, step 1: a temporary file is created in the same directory
CreateTemp ==
    /\ ~temp
    /\ Room
    /\ temp' = TRUE
    /\ replace' = 1
    /\ UNCHANGED <<target, nextVer>>
    /\ Deliver(Event("created", TempPath, TempPath, FALSE))
    /\ UNCHANGED <<loopState, watcherVars, applied, appliedBy, reloadVars>>

\* atomic replace, step 2 (or a plain removal): the watched file is deleted
DeleteTarget ==
    /\ target # 0
    /\ Room
    /\ target' = 0
    /\ replace' = IF replace = 1 THEN 2 ELSE 0
    /\ UNCHANGED <<temp, nextVer>>
    /\ Deliver(Event("deleted", config_path, config_path, FALSE))
    /\ UNCHANGED <<loopState, watcherVars, applied, appliedBy, reloadVars>>

\* atomic replace, step 3: the temporary file, which holds the new content, is renamed
\* to the watched file
RenameTemp ==
    /\ nextVer <= MaxWrites + 1
    /\ temp
    /\ Room
    /\ target' = nextVer
    /\ nextVer' = nextVer + 1
    /\ temp' = FALSE
    /\ replace' = IF replace = 2 THEN 3 ELSE 0
    /\ Deliver(Event("moved", TempPath, config_path, FALSE))
    /\ UNCHANGED <<loopState, watcherVars, applied, appliedBy, reloadVars>>

\* any other event of the watched directory: a touch, another file, a directory
RawEvent(e) ==
    /\ Room
    /\ UNCHANGED fsVars
    /\ Deliver(e)
    /\ UNCHANGED <<loopState, watcherVars, applied, appliedBy, reloadVars>>

\* ------------------------------------------------------- ConfigWatcher
FileExistsAlways == TRUE

\* self.config_path.exists()
FileExists == target # 0

\* asyncio.get_running_loop() succeeds: start() is called from a coroutine of the loop
HasRunningLoop(fromLoop) == fromLoop /\ loopState = "running"

\* ConfigWatcher.start(); the caller starts a watcher once: it calls start() again
\* only when no observer was created.
\* ConfigChangeHandler.__init__ sets _last_modification = 0, long before time.time()
Start(fromLoop) ==
    /\ wpc = "idle"
    /\ observer = "none"
    /\ IF ~FileExists
       THEN /\ log' = "Config file does not exist"
            /\ UNCHANGED <<watcherVars, elapsed, burst, reloads>>
       ELSE IF ~HasRunningLoop(fromLoop)
            THEN /\ log' = "No running event loop found"
                 /\ UNCHANGED <<watcherVars, elapsed, burst, reloads>>
            ELSE /\ wloop' = "main"
                 /\ elapsed' = debounce_delay
                 /\ burst' = 0
                 /\ UNCHANGED reloads
                 /\ observer' = "alive"
                 /\ log' = "File watcher is alive"
                 /\ UNCHANGED wpc
    /\ UNCHANGED <<fsVars, loopState, applied, appliedBy, reloadVars>>

\* ConfigWatcher.stop() up to self.observer.join(): observer.stop()
StopCall ==
    /\ wpc = "idle"
    /\ IF observer = "none"
       THEN UNCHANGED <<observer, wpc>>
       ELSE /\ observer' = IF observer = "alive" THEN "stopping" ELSE observer
            /\ wpc' = "joining"
    /\ UNCHANGED <<fsVars, loopState, wloop, handlerVars, applied, appliedBy, reloadVars>>

\* the observer thread leaves its run loop
ObserverExit ==
    /\ observer = "stopping"
    /\ observer' = "exited"
    /\ UNCHANGED <<fsVars, loopState, wpc, wloop, handlerVars, applied, appliedBy, reloadVars>>

JoinedWithoutWaiting == TRUE

\* self.observer.join() returns
Joined == observer = "exited"

\* ConfigWatcher.stop() from join() to its return
StopReturn ==
    /\ wpc = "joining"
    /\ Joined
    /\ wpc' = "idle"
    /\ log' = "Stopped watching config file"
    /\ UNCHANGED <<fsVars, loopState, observer, wloop, elapsed, burst, reloads, applied,
                   appliedBy, reloadVars>>

\* ------------------------------------------------- _handle_config_change
\* the thread a coroutine runs on is able to run it
CanRun(r) == r.thread = "loop" => loopState = "running"

\* the loop runs the callbacks of call_soon_threadsafe in the order they were queued
FirstQueued(i) == \A j \in 1..(i - 1) : reloads[j].pc # "queued"

\* the loop runs the timers that are due in the order of their times; of two sleeps
\* that have as long to go on the model's clock, the one that began first (the loop
\* starts the coroutines in the order of reloads) ends first
FirstDue(i) ==
    \A j \in DOMAIN reloads :
        (reloads[j].pc = "sleeping" /\ reloads[j].thread = reloads[i].thread)
            => \/ reloads[i].sleep < reloads[j].sleep
               \/ reloads[i].sleep = reloads[j].sleep /\ i <= j

ShorterSleep == debounce_delay - 1

\* await asyncio.sleep(self._debounce_delay)
SleepTime == debounce_delay

\* the coroutine starts on the loop and runs to its sleep
TaskStart(i) ==
    /\ i \in DOMAIN reloads
    /\ reloads[i].pc = "queued"
    /\ CanRun(reloads[i])
    /\ FirstQueued(i)
    /\ reloads' = [reloads EXCEPT ![i].pc = "sleeping", ![i].sleep = SleepTime]
    /\ UNCHANGED <<fsVars, loopState, watcherVars, elapsed, burst, applied, appliedBy, log, reloadVars>>

ReadResultUnparsed == IF target = 0 THEN "FileNotFoundError" ELSE "none"

\* with open(self.config_path, 'r') as f: new_config = json.load(f)
ReadResult ==
    IF target = 0 THEN "FileNotFoundError"
    ELSE IF target < 0 THEN "JSONDecodeError"
    ELSE "none"

FailureEscapes == "raised"

RetryAfterFailure == "queued"

\* except json.JSONDecodeError / FileNotFoundError / Exception: the error is logged and
\* the coroutine returns
AfterFailure == "done"

\* the sleep is over: the file is read and parsed, and the reload callback is called
TaskRead(i) ==
    /\ i \in DOMAIN reloads
    /\ reloads[i].pc = "sleeping"
    /\ CanRun(reloads[i])
    /\ reloads[i].sleep = 0
    /\ FirstDue(i)
    /\ reloads' = [reloads EXCEPT ![i].pc = IF ReadResult = "none" THEN "callback"
                                            ELSE AfterFailure,
                                  ![i].got = IF ReadResult = "none" THEN target ELSE 0]
    /\ log' = CASE ReadResult = "FileNotFoundError" -> "Config file not found"
                [] ReadResult = "JSONDecodeError" -> "Invalid JSON in config file"
                [] OTHER -> "Processing config file change"
    /\ UNCHANGED <<fsVars, loopState, watcherVars, elapsed, burst, applied, appliedBy, reloadVars>>

\* await self.reload_callback(new_config) completes: it has applied the configuration,
\* or it raises and the exception is logged
CallbackReturn(i, ok) ==
    /\ reloads[i].pc = "callback"
    /\ CanRun(reloads[i])
    /\ reloads' = [reloads EXCEPT ![i].pc = IF ok THEN "done" ELSE AfterFailure, ![i].got = 0]
    /\ applied' = IF ok THEN reloads[i].got ELSE applied
    /\ appliedBy' = IF ok THEN i ELSE appliedBy
    /\ log' = IF ok THEN log ELSE "Error reloading config"
    /\ UNCHANGED <<fsVars, loopState, watcherVars, elapsed, burst, reloadVars>>

\* the event loop is closed
LoopClose ==
    /\ loopState = "running"
    /\ loopState' = "closed"
    /\ UNCHANGED <<fsVars, watcherVars, handlerVars, applied, appliedBy, reloadVars>>

\* one unit of time passes on every clock
Tick ==
    /\ elapsed' = Min(elapsed + 1, debounce_delay)
    /\ burst' = IF elapsed' < debounce_delay THEN burst ELSE 0
    /\ reloads' = [i \in DOMAIN reloads |->
                      [reloads[i] EXCEPT !.age = Min(@ + 1, debounce_delay),
                                         !.sleep = IF @ > 0 THEN @ - 1 ELSE 0]]
    /\ UNCHANGED <<fsVars, loopState, watcherVars, applied, appliedBy, log, reloadVars>>

\* ------------------------------------------ reload_config_handler (mcpo.main)
\* the service names of the configurations, in the order of the mapping
Names == <<"a", "b", "c">>

NameSet == {Names[k] : k \in DOMAIN Names}

\* a server configuration is the set of the fields it has
ServerSpecs == {{"command"}, {"type", "url"}, {"type"}, {"invalid"}}

NoServers == [n \in {} |-> {}]

\* the "mcpServers" mappings
Configs == UNION {[D -> ServerSpecs] : D \in SUBSET NameSet}

validate_url_unchecked(server_cfg) ==
    IF "type" \in server_cfg \/ "command" \in server_cfg THEN "ok"
    ELSE "must have either 'command' for stdio or 'type' and 'url'"

\* validate_server_config(server_name, server_cfg): "ok", or the message of the
\* ValueError it raises
validate_server_config(server_cfg) ==
    IF "type" \in server_cfg
    THEN IF "url" \in server_cfg THEN "ok" ELSE "requires a 'url' field"
    ELSE IF "command" \in server_cfg THEN "ok"
         ELSE "must have either 'command' for stdio or 'type' and 'url'"

ValidConfigs == {C \in Configs : \A n \in DOMAIN C : validate_server_config(C[n]) = "ok"}

\* the first service of a set, in the order of the mapping
First(S) == Names[CHOOSE k \in DOMAIN Names :
                     Names[k] \in S /\ \A j \in 1..(k - 1) : Names[j] \notin S]

NoCalls == [create |-> [n \in NameSet |-> 0],
            mount |-> [n \in NameSet |-> 0],
            unmount |-> [n \in NameSet |-> 0]]

\* the handle of a sub-app: the configuration it was constructed from, and the reload
\* that constructed it (0: the application's start)
Handle(server_cfg, no) == [spec |-> server_cfg, made |-> no]

\* reload_config_handler(app, new_config) is called
ReloadCall(C) ==
    /\ rstate = "Idle"
    /\ reloadNo < MaxReloadCalls
    /\ reloadNo' = reloadNo + 1
    /\ new_config' = C
    /\ old_mounts' = mounts
    /\ rstate' = "Validating"
    /\ UNCHANGED <<config_data, mounts, todo, staged, calls, error>>
    /\ UNCHANGED watchVars

\* step 2: every entry is validated; any violation aborts the whole reload
ValidateConfig ==
    /\ rstate = "Validating"
    /\ LET bad == {n \in DOMAIN new_config : validate_server_config(new_config[n]) # "ok"}
       IN IF bad = {}
          THEN rstate' = "Diffing" /\ UNCHANGED error
          ELSE rstate' = "Rejected" /\ error' = validate_server_config(new_config[First(bad)])
    /\ UNCHANGED <<config_data, mounts, new_config, todo, staged, calls, reloadNo, old_mounts>>
    /\ UNCHANGED watchVars

Added == DOMAIN new_config \ DOMAIN config_data

Removed == DOMAIN config_data \ DOMAIN new_config

ChangedAll == DOMAIN config_data \cap DOMAIN new_config

\* retained services whose configuration differs
Changed == {n \in DOMAIN config_data \cap DOMAIN new_config : config_data[n] # new_config[n]}

\* step 3: the difference of the current and the new service names
Diff ==
    /\ rstate = "Diffing"
    /\ todo' = Added \cup Changed
    /\ rstate' = "Mounting"
    /\ UNCHANGED <<config_data, mounts, new_config, staged, calls, reloadNo, old_mounts, error>>
    /\ UNCHANGED watchVars

\* step 3 and 6: create_sub_app for the next added or changed service; an exception
\* aborts the reload, and what it has constructed is dropped
Construct(ok) ==
    /\ rstate = "Mounting"
    /\ todo # {}
    /\ LET n == First(todo)
       IN /\ calls' = [calls EXCEPT !.create[n] = @ + 1]
          /\ IF ok
             THEN /\ staged' = [m \in DOMAIN staged \cup {n} |->
                                   IF m = n THEN Handle(new_config[n], reloadNo) ELSE staged[m]]
                  /\ todo' = todo \ {n}
                  /\ UNCHANGED <<rstate, error>>
             ELSE /\ staged' = NoServers
                  /\ todo' = {}
                  /\ rstate' = "RolledBack"
                  /\ error' = "create_sub_app failed"
    /\ UNCHANGED <<config_data, mounts, new_config, reloadNo, old_mounts>>
    /\ UNCHANGED watchVars

NewTableKeepingAll == [n \in DOMAIN mounts \cup DOMAIN staged |->
                          IF n \in DOMAIN staged THEN staged[n] ELSE mounts[n]]

\* step 4: the new table, of the retained unchanged, the updated and the added services
NewTable == [n \in DOMAIN new_config |->
                IF n \in DOMAIN staged THEN staged[n] ELSE mounts[n]]

\* steps 4 and 5: the new table is published, the handles removed or updated away are
\* released, and the new configuration becomes the applied one
Publish ==
    /\ rstate = "Mounting"
    /\ todo = {}
    /\ mounts' = NewTable
    /\ calls' = [calls EXCEPT
                    !.mount = [n \in NameSet |-> IF n \in DOMAIN staged THEN @[n] + 1 ELSE @[n]],
                    !.unmount = [n \in NameSet |->
                                    IF n \in Removed \cup Changed THEN @[n] + 1 ELSE @[n]]]
    /\ config_data' = new_config
    /\ rstate' = "Committed"
    /\ UNCHANGED <<new_config, todo, staged, reloadNo, old_mounts, error>>
    /\ UNCHANGED watchVars

\* the reload returns (or raises its error): back to Idle
ReloadReturn ==
    /\ rstate \in {"Committed", "Rejected", "RolledBack"}
    /\ rstate' = "Idle"
    /\ new_config' = NoServers
    /\ old_mounts' = NoServers
    /\ staged' = NoServers
    /\ calls' = NoCalls
    /\ error' = "none"
    /\ UNCHANGED <<config_data, mounts, todo, reloadNo>>
    /\ UNCHANGED watchVars

\* ------------------------------------------------------ specification
\* no reload_config_handler is attached: the reload callback is taken as a whole
NoReload ==
    /\ config_data = NoServers
    /\ mounts = NoServers
    /\ new_config = NoServers
    /\ rstate = "Idle"
    /\ todo = {}
    /\ staged = NoServers
    /\ calls = NoCalls
    /\ reloadNo = 0
    /\ old_mounts = NoServers
    /\ error = "none"

Init ==
    /\ NoReload
    /\ target = 1
    /\ temp = FALSE
    /\ nextVer = 2
    /\ replace = 0
    /\ loopState = "running"
    /\ observer = "none"
    /\ wpc = "idle"
    /\ wloop = "none"
    /\ elapsed = debounce_delay
    /\ burst = 0
    /\ reloads = <<>>
    /\ applied = 1
    /\ appliedBy = 0
    /\ log = "none"

Next ==
    \/ \E valid \in BOOLEAN : WriteTarget(valid)
    \/ CreateTemp
    \/ DeleteTarget
    \/ RenameTemp
    \/ \E e \in RawEvents : RawEvent(e)
    \/ \E fromLoop \in BOOLEAN : Start(fromLoop)
    \/ StopCall
    \/ ObserverExit
    \/ StopReturn
    \/ \E i \in DOMAIN reloads : TaskStart(i)
    \/ \E i \in DOMAIN reloads : TaskRead(i)
    \/ \E i \in DOMAIN reloads, ok \in BOOLEAN : CallbackReturn(i, ok)
    \/ LoopClose
    \/ Tick

Spec == Init /\ [][Next]_vars

\* the application has started with a valid configuration, its services mounted
ReloadInit ==
    /\ target = 1
    /\ temp = FALSE
    /\ nextVer = 2
    /\ replace = 0
    /\ loopState = "running"
    /\ observer = "none"
    /\ wpc = "idle"
    /\ wloop = "none"
    /\ elapsed = debounce_delay
    /\ burst = 0
    /\ reloads = <<>>
    /\ applied = 1
    /\ appliedBy = 0
    /\ log = "none"
    /\ config_data \in ValidConfigs
    /\ mounts = [n \in DOMAIN config_data |-> Handle(config_data[n], 0)]
    /\ new_config = NoServers
    /\ rstate = "Idle"
    /\ todo = {}
    /\ staged = NoServers
    /\ calls = NoCalls
    /\ reloadNo = 0
    /\ old_mounts = NoServers
    /\ error = "none"

ReloadNext ==
    \/ \E C \in Configs : ReloadCall(C)
    \/ ValidateConfig
    \/ Diff
    \/ \E ok \in BOOLEAN : Construct(ok)
    \/ Publish
    \/ ReloadReturn

\* the reload callback alone, called with any configuration
ReloadSpec == ReloadInit /\ [][ReloadNext]_vars

\* time passes, and a running loop runs the coroutines that are ready
FairSpec ==
    /\ Spec
    /\ WF_vars(Tick)
    /\ WF_vars(\E i \in DOMAIN reloads : TaskStart(i) \/ TaskRead(i))

\* =================================================================== claims
\* a coroutine was appended to reloads, and the earlier ones are as they were
Appended ==
    /\ Len(reloads') = Len(reloads) + 1
    /\ SubSeq(reloads', 1, Len(reloads)) = reloads

NewOne == reloads'[Len(reloads')]

\* what the handlers are to take for the watched file: a file event whose resolved path
\* (the destination of a move) is the watched file's resolved path, or has its name and
\* its parent directory
ShouldMatch(e) ==
    /\ ~e.is_directory
    /\ e.kind \in {"modified", "created", "moved"}
    /\ LET p == Resolve(IF e.kind = "moved" THEN e.dest_path ELSE e.src_path)
           w == Resolve(ConfigArg)
       IN p = w \/ (p.name = w.name /\ p.parent = w.parent)

\* the events of the watched file that the handler handles
MatchingEvents == {e \in RawEvents : ShouldMatch(e)}

\* a step in which the live observer thread handed a matching event to its handler
MatchingEventStep ==
    /\ observer = "alive"
    /\ \/ \E e \in MatchingEvents : RawEvent(e)
       \/ \E valid \in BOOLEAN : WriteTarget(valid)
       \/ RenameTemp

\* C1 as stated: a matching event handled within the debounce delay of the last accepted
\* one is discarded (timestamp unchanged, nothing scheduled); any other sets the
\* timestamp to now and submits exactly one reload task to the scheduler
C1_DebounceOrSubmitted ==
    [][MatchingEventStep =>
          IF elapsed < debounce_delay
          THEN elapsed' = elapsed /\ reloads' = reloads
          ELSE elapsed' = 0 /\ Appended /\ NewOne.age = 0 /\ NewOne.pc = "queued"]_vars

\* C1, amended: a matching event handled less than the debounce delay after the last
\* accepted one is discarded: the timestamp and the coroutines stay as they are; any
\* other matching event sets the timestamp to now and hands exactly one new coroutine
\* to run_coroutine_threadsafe, which queues it on the loop unless the loop is closed:
\* then the hand-off fails and nothing is scheduled
C1_DebounceOrSubmit ==
    [][MatchingEventStep =>
          IF elapsed < debounce_delay
          THEN /\ elapsed' = elapsed
               /\ reloads' = reloads
          ELSE /\ elapsed' = 0
               /\ Appended
               /\ NewOne.age = 0
               /\ NewOne.pc = IF loopState = "running" THEN "queued" ELSE "dropped"]_vars

\* an event was accepted and a later one of its window was discarded
C1_Witness ==
    /\ Len(reloads) = 1
    /\ reloads[1].pc = "queued"
    /\ burst = 2
    /\ elapsed = 1
    /\ log = "Debouncing file change"

\* C2: at most one reload is scheduled per debounce window: when the handler creates a
\* coroutine, every coroutine it created before was triggered at least the debounce
\* delay earlier
C2_TriggersApart ==
    [][Len(reloads') > Len(reloads) =>
          /\ Appended
          /\ \A i \in DOMAIN reloads : reloads[i].age >= debounce_delay]_vars

\* two coroutines were created, the second while the first was still to read the file
C2_Witness ==
    /\ Len(reloads) = 2
    /\ reloads[1].pc = "sleeping"
    /\ reloads[2].pc = "queued"
    /\ reloads[2].age = 0

\* the coroutines triggered within the current debounce window
InWindow == {i \in DOMAIN reloads : reloads[i].age < debounce_delay}

\* C3 as stated: a burst of matching events within one debounce window (burst counts
\* them, the accepted first one included) has exactly one reload scheduled on the loop
C3_BurstOneScheduled ==
    burst >= 1 =>
        /\ Cardinality(InWindow) = 1
        /\ \A i \in InWindow : reloads[i].pc # "dropped"

\* C3, amended: a burst of matching events within one debounce window has exactly one
\* coroutine, created by its first event, and every later event of the burst is
\* discarded; the coroutine is scheduled on the loop unless the loop was closed by then
C3_BurstOneReload ==
    burst >= 1 =>
        /\ elapsed < debounce_delay
        /\ InWindow = {Len(reloads)}
        /\ reloads[Len(reloads)].age = elapsed
        /\ (loopState = "running" => reloads[Len(reloads)].pc # "dropped")

\* three matching events came in one window, at two different times: one reload
C3_Witness ==
    /\ burst = 3
    /\ elapsed = 1
    /\ log = "Debouncing file change"
    /\ Len(reloads) = 1
    /\ reloads[1].pc \in {"queued", "sleeping"}

\* C4 as stated: a matching event that comes at least the debounce delay after the last
\* accepted one always schedules a reload on the loop
C4_SettledSchedules ==
    [][(MatchingEventStep /\ elapsed >= debounce_delay) =>
          (Appended /\ NewOne.pc = "queued")]_vars

\* C4, amended: a matching event that comes at least the debounce delay after the last
\* accepted one is always accepted, whatever the earlier coroutines are doing, and
\* schedules a reload unless the event loop is closed (then the signal is dropped);
\* only an event within the window of the last accepted one is discarded
C4_SettledAccepted ==
    [][MatchingEventStep =>
          /\ (elapsed >= debounce_delay =>
                 /\ Appended
                 /\ elapsed' = 0
                 /\ (loopState = "running" => NewOne.pc = "queued"))
          /\ (reloads' = reloads => elapsed < debounce_delay)]_vars

\* a reload was scheduled while the earlier one was still in its callback
C4_Witness ==
    /\ Len(reloads) = 2
    /\ reloads[1].pc = "callback"
    /\ reloads[2].pc = "queued"
    /\ elapsed = 0

\* a step that ends an atomic replace (temporary file created, target deleted,
\* temporary file renamed to the target) under the eyes of the live observer
ReplaceDone == replace = 2 /\ replace' = 3 /\ observer = "alive"

\* the first two steps of an atomic replace
ReplaceBegun == replace' \in {1, 2} /\ replace' # replace

\* the coroutine i reads the file in this step
Reads(i) == i \in DOMAIN reloads /\ reloads[i].pc = "sleeping" /\ reloads'[i].pc # "sleeping"

OtherEvents == {e \in RawEvents : ~ShouldMatch(e)}

\* a step in which such an event comes
OtherEventStep ==
    \/ \E e \in OtherEvents : RawEvent(e)
    \/ CreateTemp
    \/ DeleteTarget

\* C6: an event that is of a directory, or of a kind the handler does not handle, or
\* whose resolved path is not the watched file's, changes nothing of the debounce
\* state and schedules nothing
C6_OtherEventsIgnored ==
    [][UNCHANGED <<elapsed, burst, reloads>> \/ ~OtherEventStep]_vars

\* the live handler was handed an event for another file, and no reload was created
C6_Witness ==
    /\ observer = "alive"
    /\ log \in {"modified but not our config file", "File moved", "File created"}
    /\ reloads = <<>>
    /\ elapsed = debounce_delay

\* C7: the observer thread only creates coroutines for the loop captured by start():
\* a coroutine that sleeps, has read the file or has called the reload callback runs on
\* that loop, and what the callback applied came from such a coroutine
C7_ReloadOnLoop ==
    \A i \in DOMAIN reloads :
        /\ reloads[i].pc \in {"queued", "sleeping", "callback", "done"} =>
               (reloads[i].thread = "loop" /\ wloop = "main")
        /\ reloads[i].pc = "dropped" => reloads[i].thread = "none"

\* a coroutine read the file and called the reload callback, on the loop
C7_Witness ==
    /\ Len(reloads) = 1
    /\ reloads[1].pc = "callback"
    /\ reloads[1].thread = "loop"
    /\ reloads[1].got = target
    /\ log = "Processing config file change"

\* the coroutines that have read the file and whose reload callback has not returned
Reloading == {i \in DOMAIN reloads : reloads[i].pc = "callback"}

\* C8: at most one reload executes at a time
C8_OneReloadAtATime == Cardinality(Reloading) <= 1

\* stop() has returned
Stopped == wpc = "idle" /\ observer \in {"stopping", "exited"}

\* C9: once stop() has returned the observer thread has exited and no event creates a
\* coroutine or touches the debounce state; the coroutines created before may go on
C9_StoppedSchedulesNothing ==
    [][Stopped =>
          /\ observer = "exited"
          /\ Len(reloads') = Len(reloads)
          /\ elapsed' >= elapsed
          /\ UNCHANGED <<observer, wloop>>]_vars

\* after stop() returned, a coroutine created before read the file
C9_Witness ==
    /\ Stopped
    /\ Len(reloads) = 1
    /\ reloads[1].pc = "callback"
    /\ log = "Processing config file change"
    /\ target # 1

\* C10: start() with no watched file, or outside a running event loop, logs and returns:
\* no observer, no handler, no loop captured; while there is no observer no event
\* creates a coroutine, and stop() changes nothing
C10_StartRefused ==
    [][/\ \A fromLoop \in BOOLEAN :
              (Start(fromLoop) /\ (target = 0 \/ ~fromLoop \/ loopState # "running")) =>
                  /\ UNCHANGED <<observer, wpc, wloop, elapsed, burst, reloads>>
                  /\ log' = IF target = 0 THEN "Config file does not exist"
                            ELSE "No running event loop found"
       /\ observer = "none" => reloads' = reloads
       /\ (StopCall /\ observer = "none") => UNCHANGED vars]_vars

\* start() was refused for want of the file; events came, nothing was scheduled
C10_Witness ==
    /\ log = "Config file does not exist"
    /\ observer = "none"
    /\ wloop = "none"
    /\ target = 0
    /\ reloads = <<>>

\* the messages the except branches of the coroutine log
ErrorLogs == {"Invalid JSON in config file", "Config file not found", "Error reloading config"}

\* C11: a coroutine that finds the watched file missing, or its content not valid JSON,
\* logs the error and ends without calling the reload callback, never to call it later:
\* the applied configuration is what it was before the attempt
C11_BadFileAborts ==
    [][\A i \in DOMAIN reloads :
          /\ (Reads(i) /\ target <= 0) =>
                 /\ reloads'[i].pc = "done"
                 /\ reloads'[i].got = 0
                 /\ applied' = applied
                 /\ log' = IF target = 0 THEN "Config file not found"
                           ELSE "Invalid JSON in config file"
          /\ reloads[i].pc = "done" => (reloads'[i].pc = "done" /\ reloads'[i].got = 0)]_vars

\* the one attempt read invalid JSON and ended; the first configuration is still applied
C11_Witness ==
    /\ Len(reloads) = 1
    /\ reloads[1].pc = "done"
    /\ log = "Invalid JSON in config file"
    /\ target < 0
    /\ applied = 1

\* the step in which the coroutine i meets an error: the file is missing or is not valid
\* JSON when it reads it, or the reload callback raises
Fails(i) ==
    \/ Reads(i) /\ target <= 0
    \/ i \in DOMAIN reloads /\ CallbackReturn(i, FALSE)

\* C12: an error in a coroutine (missing file, invalid JSON, an exception of the reload
\* callback) is caught and logged in it: the coroutine ends, the event loop, the
\* observer and the debounce state are as they were, and the next matching event that
\* comes a debounce delay after the last accepted one is scheduled as ever
C12_ErrorsContained ==
    [][/\ \A i \in DOMAIN reloads :
              Fails(i) =>
                  /\ reloads'[i].pc = "done"
                  /\ log' \in ErrorLogs
                  /\ UNCHANGED <<loopState, observer, wpc, wloop, elapsed, applied>>
                  /\ \A j \in DOMAIN reloads \ {i} : reloads'[j] = reloads[j]
       /\ (MatchingEventStep /\ log \in ErrorLogs /\ elapsed >= debounce_delay
               /\ loopState = "running") =>
              (Appended /\ NewOne.pc = "queued")]_vars

\* the reload callback raised for a new content: the coroutine has ended, the loop and
\* the observer run, and the handler is ready to accept the next event
C12_Witness ==
    /\ Len(reloads) = 1
    /\ reloads[1].pc = "done"
    /\ log = "Error reloading config"
    /\ observer = "alive"
    /\ loopState = "running"
    /\ elapsed = debounce_delay
    /\ target = 2
    /\ applied = 1

\* how far a coroutine has come
Stage(pc) ==
    CASE pc = "queued" -> 1
      [] pc = "sleeping" -> 2
      [] pc = "callback" -> 3
      [] pc = "done" -> 4
      [] OTHER -> 5

\* a step in which the observer thread handed a matching event to its handler
TriggerStep ==
    /\ observer \in {"alive", "stopping"}
    /\ \/ \E e \in MatchingEvents : RawEvent(e)
       \/ \E valid \in BOOLEAN : WriteTarget(valid)
       \/ RenameTemp

\* C13: there is no retry: a coroutine never goes back (it reads the file once and
\* calls the reload callback at most once, and once it has ended it stays so), and a
\* new coroutine is only created by a matching event that the handler accepts
C13_NoRetry ==
    [][/\ \A i \in DOMAIN reloads :
              /\ Stage(reloads'[i].pc) >= Stage(reloads[i].pc)
              /\ Stage(reloads'[i].pc) <= 4 \/ reloads'[i].pc = reloads[i].pc
       /\ Len(reloads') # Len(reloads) =>
              (Appended /\ TriggerStep /\ elapsed >= debounce_delay)]_vars

\* the one attempt found no file and ended; time has passed and nothing else is pending
C13_Witness ==
    /\ Len(reloads) = 1
    /\ reloads[1].pc = "done"
    /\ log = "Config file not found"
    /\ target = 0
    /\ elapsed = debounce_delay
    /\ applied = 1

\* C17: a coroutine reads the file no earlier than the debounce delay after the trigger
\* that created it: it sleeps the whole delay on the loop, from the moment the loop
\* starts it
C17_ReadAfterDelay ==
    [][\A i \in DOMAIN reloads :
          /\ Reads(i) => (reloads[i].age >= debounce_delay /\ reloads[i].sleep = 0)
          /\ (reloads[i].pc = "queued" /\ reloads'[i].pc # "queued") =>
                 (reloads'[i].pc = "sleeping" /\ reloads'[i].sleep = debounce_delay)]_vars

\* the first coroutine has slept and read the file; the second, triggered a delay after
\* the first, is halfway through its sleep
C17_Witness ==
    /\ Len(reloads) = 2
    /\ reloads[1].pc = "callback"
    /\ reloads[1].age = debounce_delay
    /\ reloads[2].pc = "sleeping"
    /\ reloads[2].age = 1
    /\ reloads[2].sleep = 1

\* C18: when the event loop is closed, the hand-off of an accepted trigger fails: the
\* failure is logged by the handler, which goes on (the observer is as it was); the
\* coroutine is dropped for good, it never reads the file nor calls the reload callback,
\* and the applied configuration stays what it was
C18_FailedHandOffDropped ==
    [][/\ (MatchingEventStep /\ elapsed >= debounce_delay /\ loopState = "closed") =>
              /\ Appended
              /\ NewOne.pc = "dropped"
              /\ NewOne.thread = "none"
              /\ log' = "Failed to schedule config reload"
              /\ UNCHANGED <<observer, wpc, wloop, applied>>
       /\ \A i \in DOMAIN reloads :
              reloads[i].pc = "dropped" =>
                  (reloads'[i].pc = "dropped" /\ reloads'[i].got = 0 /\ applied' = applied)]_vars

\* the file was given a new content after the loop was closed: the hand-off failed and
\* the first configuration is still the applied one
C18_Witness ==
    /\ loopState = "closed"
    /\ observer = "alive"
    /\ log = "Failed to schedule config reload"
    /\ Len(reloads) = 1
    /\ reloads[1].pc = "dropped"
    /\ target = 2
    /\ applied = 1

\* the coroutine i is on the loop and has not read the file yet
Pending(i) == i \in DOMAIN reloads /\ reloads[i].pc \in {"queued", "sleeping"}

C14_ReloadMountsConfig ==
    rstate = "Committed" =>
        /\ DOMAIN mounts = DOMAIN new_config
        /\ config_data = new_config
        /\ \A n \in DOMAIN new_config : validate_server_config(new_config[n]) = "ok"
        /\ \A n \in DOMAIN mounts : mounts[n].spec = new_config[n]
        /\ \A n \in DOMAIN new_config \ DOMAIN old_mounts :
               calls.create[n] = 1 /\ calls.mount[n] = 1

\* the one old service was replaced by a new one, constructed and mounted once
C14_Witness ==
    /\ rstate = "Committed"
    /\ DOMAIN old_mounts = {"a"}
    /\ DOMAIN mounts = {"b"}
    /\ config_data = new_config
    /\ calls.create = [n \in NameSet |-> IF n = "b" THEN 1 ELSE 0]
    /\ calls.mount = calls.create

\* C15: a reload unmounts the services that are gone, mounts the new ones, and keeps
\* the handle of a retained service whose configuration is unchanged, without calling
\* the constructor for it: so a reload with the configuration already applied
\* constructs nothing
C15_DiffKeepsUnchanged ==
    rstate = "Committed" =>
        \A n \in NameSet :
            /\ n \in DOMAIN old_mounts \ DOMAIN new_config =>
                   (n \notin DOMAIN mounts /\ calls.unmount[n] = 1)
            /\ n \in DOMAIN new_config \ DOMAIN old_mounts =>
                   (n \in DOMAIN mounts /\ mounts[n].made = reloadNo /\ calls.unmount[n] = 0)
            /\ (n \in DOMAIN old_mounts \cap DOMAIN new_config
                   /\ old_mounts[n].spec = new_config[n]) =>
                   /\ n \in DOMAIN mounts
                   /\ mounts[n] = old_mounts[n]
                   /\ calls.create[n] = 0
                   /\ calls.mount[n] = 0
                   /\ calls.unmount[n] = 0

\* the second reload went from {a, b} to {b, c}: b keeps the handle the first reload
\* constructed
C15_Witness ==
    /\ rstate = "Committed"
    /\ reloadNo = 2
    /\ DOMAIN old_mounts = {"a", "b"}
    /\ DOMAIN mounts = {"b", "c"}
    /\ mounts["b"] = old_mounts["b"]
    /\ mounts["b"].made = 1
    /\ mounts["c"].made = 2
    /\ calls.unmount["a"] = 1

\* a configuration with `command`, or with both `type` and `url`
Accepted(server_cfg) == "command" \in server_cfg \/ {"type", "url"} \subseteq server_cfg

\* the services of the new configuration that come before n
Before(n) == {Names[j] : j \in 1..((CHOOSE k \in DOMAIN Names : Names[k] = n) - 1)}
                 \cap DOMAIN new_config

C20_NewestWins ==
    [][/\ \A i \in DOMAIN reloads : Reads(i) => \A j \in 1..(i - 1) : ~Pending(j)
       /\ appliedBy' >= appliedBy \/ applied' = applied]_vars

====
